---------------------------- MODULE Spec2Model ----------------------------
(***************************************************************************)
(* Model of the messaging backend (src/main.py): the keyword classifier    *)
(* score_urgency, the message-creating entry points create_message and     *)
(* import_csv, the conversations aggregation and the WebSocket             *)
(* ConnectionManager.                                                      *)
(*                                                                         *)
(* A Python str is modelled as a sequence of one-character strings, so     *)
(* that `kw in t` is a real substring search and str.lower() a real        *)
(* conversion.                                                             *)
(***************************************************************************)
EXTENDS Integers, Sequences, FiniteSets, TLC

VARIABLES
    text,       \* score_urgency: the argument of the call under study
    scored,     \* score_urgency: << its return value >>, NoResult before the call
    messages,   \* db["message"]: the stored documents, in _id (creation) order
    customers,  \* db["customer"]: the stored customers (their keys)
    active,     \* manager.active: the list of registered websockets
    wsPc,       \* per websocket: where its ws_messages handler is
    bcast,      \* per message _id: the manager.broadcast call made for it
    imp,        \* the import_csv request running in the threadpool
    convReq,    \* conversations: the request (q, sort, limit, scan order)
    convOut     \* conversations: << the returned items >>, NoResult before

vars == << text, scored, messages, customers, active, wsPc, bcast, imp,
           convReq, convOut >>

None == "None"
\* a call that has not returned yet has no result: << >>; afterwards << r >>
NoResult == << >>

-----------------------------------------------------------------------------
(* Bounds of the model.                                                    *)

\* words per text handed to score_urgency
MaxWords == 3
\* messages stored by create_message and import_csv together
MaxMsgs == 2
\* documents in the collection the conversations aggregation scans
MaxDocs == 3
\* largest value of the conversations limit parameter
MaxLimit == 2

-----------------------------------------------------------------------------
(* Strings.                                                                *)

UpperChars == << "A","B","C","D","E","F","G","H","I","J","K","L","M",
                 "N","O","P","Q","R","S","T","U","V","W","X","Y","Z" >>
LowerChars == << "a","b","c","d","e","f","g","h","i","j","k","l","m",
                 "n","o","p","q","r","s","t","u","v","w","x","y","z" >>

lowerChar(c) ==
    IF \E i \in 1..26 : UpperChars[i] = c
    THEN LowerChars[CHOOSE i \in 1..26 : UpperChars[i] = c]
    ELSE c

\* str.lower()
lower(s) == [i \in 1..Len(s) |-> lowerChar(s[i])]

\* number of (possibly overlapping) occurrences of kw in t
Occurrences(kw, t) ==
    Cardinality({ i \in 1..(Len(t) - Len(kw) + 1) :
                    \A j \in 1..Len(kw) : t[i + j - 1] = kw[j] })

\* Python's `kw in t` on strings
Contains(kw, t) ==
    \E i \in 1..(Len(t) - Len(kw) + 1) :
        \A j \in 1..Len(kw) : t[i + j - 1] = kw[j]

-----------------------------------------------------------------------------
(* score_urgency.                                                          *)

KW_loan ==
  << <<"l","o","a","n">>,
     <<"d","i","s","b","u","r","s","e">>,
     <<"d","i","s","b","u","r","s","a","l">>,
     <<"a","p","p","r","o","v","a","l">>,
     <<"a","p","p","r","o","v","e","d">>,
     <<"w","h","e","n"," ","w","i","l","l"," ","i"," ","g","e","t">>,
     <<"p","a","y","o","u","t">> >>
KW_account ==
  << <<"a","c","c","o","u","n","t">>,
     <<"u","p","d","a","t","e">>,
     <<"p","r","o","f","i","l","e">>,
     <<"c","h","a","n","g","e">>,
     <<"p","a","s","s","w","o","r","d">> >>
KW_kyc ==
  << <<"k","y","c">>,
     <<"v","e","r","i","f","y">>,
     <<"v","e","r","i","f","i","c","a","t","i","o","n">>,
     <<"i","d">>,
     <<"i","d","e","n","t","i","t","y">> >>
KW_payment ==
  << <<"p","a","y","m","e","n","t">>,
     <<"r","e","p","a","y">>,
     <<"r","e","p","a","y","m","e","n","t">>,
     <<"d","u","e">>,
     <<"o","v","e","r","d","u","e">> >>

\* the dict, in its insertion order (the order .items() iterates in)
URGENT_KEYWORDS ==
  << [tp |-> "loan",    kws |-> KW_loan],
     [tp |-> "account", kws |-> KW_account],
     [tp |-> "kyc",     kws |-> KW_kyc],
     [tp |-> "payment", kws |-> KW_payment] >>

EXTRA_URGENT ==
  << <<"u","r","g","e","n","t">>,
     <<"a","s","a","p">>,
     <<"i","m","m","e","d","i","a","t","e","l","y">>,
     <<"n","o","w">>,
     <<"h","e","l","p">> >>

S_when     == <<"w","h","e","n">>
S_loan     == <<"l","o","a","n">>
S_disbur   == <<"d","i","s","b","u","r">>
S_approved == <<"a","p","p","r","o","v","e","d">>

\* a counting slip: every occurrence of every keyword is a hit
hitsPerOccurrence(kws, t) ==
    LET RECURSIVE total(_)
        total(i) == IF i > Len(kws) THEN 0
                    ELSE Occurrences(kws[i], t) + total(i + 1)
    IN  total(1)

\* hits = sum(1 for kw in kws if kw in t)
hits(kws, t) ==
    Cardinality({ i \in 1..Len(kws) : Contains(kws[i], t) })

\* a slip: the last matching bucket wins
topicOverride(topic, tp) == tp

\* topic = tp if topic is None else topic
topicOrFirst(topic, tp) == IF topic = None THEN tp ELSE topic

\* a slip: the clamp is forgotten
minLeft(a, b) == a

\* Python's min(a, b)
min(a, b) == IF b < a THEN b ELSE a

\* the for loop over URGENT_KEYWORDS.items(), from bucket i on
RECURSIVE bucketLoop(_, _, _)
bucketLoop(i, t, acc) ==
    IF i > Len(URGENT_KEYWORDS) THEN acc
    ELSE LET tp == URGENT_KEYWORDS[i].tp
             h  == hits(URGENT_KEYWORDS[i].kws, t)
         IN  IF h # 0
             THEN bucketLoop(i + 1, t,
                     [score |-> acc.score + 30 + 10 * (h - 1),
                      topic |-> topicOrFirst(acc.topic, tp)])
             ELSE bucketLoop(i + 1, t, acc)

score_urgency(txt) ==
    LET t  == lower(txt)
        a  == bucketLoop(1, t, [score |-> 0, topic |-> None])
        s1 == IF \E k \in 1..Len(EXTRA_URGENT) : Contains(EXTRA_URGENT[k], t)
              THEN a.score + 20 ELSE a.score
        s2 == IF Contains(S_when, t)
                 /\ (Contains(S_loan, t) \/ Contains(S_disbur, t)
                     \/ Contains(S_approved, t))
              THEN s1 + 20 ELSE s1
    IN  [urgency |-> min(s2, 100), topic |-> a.topic]

-----------------------------------------------------------------------------
(* Input texts: up to MaxWords words of Vocabulary joined by single blanks.*)

W_loan      == <<"l","o","a","n">>
W_Approved  == <<"A","p","p","r","o","v","e","d">>
W_when      == <<"w","h","e","n">>
W_account   == <<"a","c","c","o","u","n","t">>
W_identity  == <<"i","d","e","n","t","i","t","y">>
W_repayment == <<"r","e","p","a","y","m","e","n","t">>
W_overdue   == <<"o","v","e","r","d","u","e">>
W_URGENT    == <<"U","R","G","E","N","T">>
W_hello     == <<"h","e","l","l","o">>

Vocabulary == { W_loan, W_Approved, W_when, W_account, W_identity,
                W_repayment, W_overdue, W_URGENT, W_hello }

RECURSIVE Join(_)
Join(ws) ==
    IF Len(ws) = 0 THEN << >>
    ELSE IF Len(ws) = 1 THEN ws[1]
    ELSE ws[1] \o <<" ">> \o Join(Tail(ws))

Texts == { Join(ws) : ws \in UNION { [1..n -> Vocabulary] : n \in 0..MaxWords } }

-----------------------------------------------------------------------------
(* The state outside the classifier, as it is when the process starts.     *)

\* the websockets that may connect to /ws/messages
WS == { "w1", "w2", "w3" }

ImpIdle == [pc |-> "idle", imported |-> 0]

InitRest ==
    /\ messages = << >>
    /\ customers = {}
    /\ active = << >>
    /\ wsPc = [w \in WS |-> "new"]
    /\ bcast = << >>
    /\ imp = ImpIdle
    /\ convReq = NoResult
    /\ convOut = NoResult

-----------------------------------------------------------------------------
(* SpecClassify: one call of score_urgency on each text of Texts.          *)

InitClassify ==
    /\ text \in Texts
    /\ scored = NoResult
    /\ InitRest

ScoreUrgency ==
    /\ scored = NoResult
    /\ scored' = << score_urgency(text) >>
    /\ UNCHANGED << text, messages, customers, active, wsPc, bcast, imp,
                    convReq, convOut >>

NextClassify == ScoreUrgency

SpecClassify == InitClassify /\ [][NextClassify]_vars

-----------------------------------------------------------------------------
(* ConnectionManager.                                                      *)

Range(f) == { f[i] : i \in DOMAIN f }

\* list.remove(x): deletes the first element equal to x
listRemove(lst, x) ==
    LET k == CHOOSE i \in 1..Len(lst) :
                 lst[i] = x /\ \A j \in 1..(i - 1) : lst[j] # x
    IN  [i \in 1..(Len(lst) - 1) |-> IF i < k THEN lst[i] ELSE lst[i + 1]]

\* list.remove(x) raises ValueError when x is not in the list
listRemoveRaises(lst, x) == x \notin Range(lst)

\* a slip: the membership test is left out
disconnectUnguarded(act, w) ==
    [active |-> IF listRemoveRaises(act, w) THEN act ELSE listRemove(act, w),
     raised |-> listRemoveRaises(act, w)]

\* ConnectionManager.disconnect: the registry afterwards, and whether the
\* call raised
disconnect(act, w) ==
    IF w \in Range(act)
    THEN [active |-> listRemove(act, w), raised |-> listRemoveRaises(act, w)]
    ELSE [active |-> act, raised |-> FALSE]

\* a slip: broadcast iterates over self.active itself
iterListLive(b, act) == act

\* the list the for loop of broadcast iterates over: list(self.active), the
\* copy taken when the call started
iterList(b, act) == b.snap

\* the websockets broadcast b has attempted a send to, in order
AttWs(b) == [i \in 1..Len(b.att) |-> b.att[i].ws]
\* those whose send returned
SentWs(b) == SelectSeq(AttWs(b), LAMBDA w :
                 \E i \in 1..Len(b.att) : b.att[i].ws = w /\ b.att[i].ok)
\* those whose send raised
FailedWs(b) == { b.att[i].ws : i \in { j \in 1..Len(b.att) : ~b.att[j].ok } }

\* ws_messages up to its wait in receive_text(): manager.connect accepts the
\* websocket (a suspension that touches no state of the manager) and appends
\* it to the registry
WsConnect(w) ==
    /\ wsPc[w] = "new"
    /\ active' = Append(active, w)
    /\ wsPc' = [wsPc EXCEPT ![w] = "receiving"]
    /\ UNCHANGED << text, scored, messages, customers, bcast, imp,
                    convReq, convOut >>

\* receive_text() raises WebSocketDisconnect: the handler calls disconnect
WsDisconnect(w) ==
    /\ wsPc[w] = "receiving"
    /\ LET d == disconnect(active, w)
       IN  /\ active' = d.active
           /\ wsPc' = [wsPc EXCEPT ![w] = IF d.raised THEN "crashed"
                                           ELSE "closed"]
    /\ UNCHANGED << text, scored, messages, customers, bcast, imp,
                    convReq, convOut >>

\* the start of manager.broadcast: the payload is built and the registry
\* copied; with nobody registered the call returns at once
broadcastStart(act) ==
    [snap |-> act, att |-> << >>,
     pc |-> IF Len(act) = 0 THEN "done" ELSE "sending"]

\* one pass of the loop of broadcast m: `await ws.send_json(payload)` returns
\* or raises; a raise is caught and the websocket disconnected
BroadcastSend(m) ==
    /\ m \in DOMAIN bcast
    /\ bcast[m].pc = "sending"
    /\ Len(bcast[m].att) < Len(iterList(bcast[m], active))
    /\ \E ok \in BOOLEAN :
         LET b   == bcast[m]
             w   == iterList(b, active)[Len(b.att) + 1]
             d   == IF ok THEN [active |-> active, raised |-> FALSE]
                    ELSE disconnect(active, w)
             att == Append(b.att, [ws |-> w, ok |-> ok])
             b2  == [b EXCEPT !.att = att]
         IN  /\ active' = d.active
             /\ bcast' = [bcast EXCEPT ![m] =
                   [b2 EXCEPT !.pc =
                       IF d.raised THEN "raised"
                       ELSE IF Len(att) >= Len(iterList(b2, d.active))
                            THEN "done" ELSE "sending"]]
    /\ UNCHANGED << text, scored, messages, customers, wsPc, imp,
                    convReq, convOut >>

-----------------------------------------------------------------------------
(* Message creation.                                                       *)

CustomerIds == { "c1", "c2" }

T_hello == W_hello
T_URGENT_loan == Join(<< W_URGENT, W_loan >>)
\* the texts of created and imported messages
MsgTexts == { T_hello, T_URGENT_loan }
\* the direction a request may carry: the two the schema names, and another
\* string (the field is a plain str)
Directions == { "inbound", "outbound", "note" }

\* a slip: every message is scored
scoreAlways(direction, txt) == score_urgency(txt)

\* create_message: urgency and topic are computed for inbound only
scoreIfInbound(direction, txt) ==
    IF direction = "inbound" THEN score_urgency(txt)
    ELSE [urgency |-> 0, topic |-> None]

\* create_document("message", data): the stored document, its _id the next
\* in creation order
document(id, customer_id, txt, direction, status, r) ==
    [id |-> id, customer_id |-> customer_id, text |-> txt,
     channel |-> "web", direction |-> direction, status |-> status,
     urgency_score |-> r.urgency, topic |-> r.topic]

\* POST /api/messages up to the first suspension of its broadcast
CreateMessage(customer_id, txt, direction) ==
    /\ Len(messages) < MaxMsgs
    /\ LET r   == scoreIfInbound(direction, txt)
           id  == Len(messages) + 1
           doc == document(id, customer_id, txt, direction,
                           IF direction = "inbound" THEN "open" ELSE "sent", r)
       IN  /\ messages' = Append(messages, doc)
           /\ bcast' = (id :> broadcastStart(active)) @@ bcast
    /\ UNCHANGED << text, scored, customers, active, wsPc, imp,
                    convReq, convOut >>

\* POST /api/messages/import_csv is a plain def: it runs in the threadpool,
\* beside the event loop. The request is taken and the reader set up.
ImportStart ==
    /\ imp.pc = "idle"
    /\ Len(messages) < MaxMsgs
    /\ imp' = [pc |-> "running", imported |-> 0]
    /\ UNCHANGED << text, scored, messages, customers, active, wsPc, bcast,
                    convReq, convOut >>

\* one pass of the loop over the rows, on the next row of the CSV text: a
\* row without text is skipped, else the customer is upserted by email and
\* the scored message stored
ImportRow(email, txt) ==
    /\ imp.pc = "running"
    /\ IF txt = << >>
       THEN UNCHANGED << messages, customers, imp >>
       ELSE /\ Len(messages) < MaxMsgs
            /\ LET r == score_urgency(txt)
               IN  messages' = Append(messages,
                       document(Len(messages) + 1, email, txt, "inbound",
                                "open", r))
            /\ customers' = customers \cup { email }
            /\ imp' = [imp EXCEPT !.imported = @ + 1]
    /\ UNCHANGED << text, scored, active, wsPc, bcast, convReq, convOut >>

\* the reader is exhausted: import_csv returns {"imported": imported}
ImportReturn ==
    /\ imp.pc = "running"
    /\ imp' = ImpIdle
    /\ UNCHANGED << text, scored, messages, customers, active, wsPc, bcast,
                    convReq, convOut >>

-----------------------------------------------------------------------------
(* Spec: the event loop of the server, with websockets connecting and      *)
(* leaving, messages created and their broadcasts in flight.               *)

Init ==
    /\ text = << >>
    /\ scored = NoResult
    /\ InitRest

Next ==
    \/ \E w \in WS : WsConnect(w)
    \/ \E w \in WS : WsDisconnect(w)
    \/ \E m \in 1..MaxMsgs : BroadcastSend(m)
    \/ \E c \in { "c1" }, t \in { T_hello }, d \in { "inbound" } :
           CreateMessage(c, t, d)

Spec == Init /\ [][Next]_vars

-----------------------------------------------------------------------------
(* SpecMsg: the message-creating entry points on every customer, text and  *)
(* direction, with one websocket listening.                                *)

NextMsg ==
    \/ \E w \in { "w1" } : WsConnect(w)
    \/ \E w \in WS : WsDisconnect(w)
    \/ \E m \in 1..MaxMsgs : BroadcastSend(m)
    \/ \E c \in CustomerIds, t \in MsgTexts, d \in Directions :
           CreateMessage(c, t, d)
    \/ ImportStart
    \/ \E c \in CustomerIds, t \in MsgTexts \cup { << >> } : ImportRow(c, t)
    \/ ImportReturn

SpecMsg == Init /\ [][NextMsg]_vars

-----------------------------------------------------------------------------
(* conversations: the aggregation pipeline over db["message"].             *)

\* {"$match": {"text": {"$regex": q, "$options": "i"}}}, for a q without
\* regex metacharacters: the documents whose text holds q, case ignored
matchStage(docs, q) ==
    SelectSeq(docs, LAMBDA d : Contains(lower(q), lower(d.text)))

\* Python's max(a, b), MongoDB's $max over two values
max(a, b) == IF a < b THEN b ELSE a

\* the accumulators of $group taking in one more document
accumulate(g, d) ==
    [g EXCEPT !.last_message = d.text,
              !.last_time    = d.id,
              !.max_urgency  = max(@, d.urgency_score),
              !.topics       = @ \cup { d.topic }]

\* {"$group": {"_id": "$customer_id", "last_message": {"$last": "$text"},
\*  "last_time": {"$last": "$_id"}, "max_urgency": {"$max": ...},
\*  "topics": {"$addToSet": "$topic"}}} over the documents in the order they
\* arrive; the groups come out in order of first arrival
RECURSIVE groupStage(_, _)
groupStage(docs, groups) ==
    IF Len(docs) = 0 THEN groups
    ELSE LET d == Head(docs)
             k == { i \in 1..Len(groups) : groups[i].customer_id = d.customer_id }
         IN  IF k = {}
             THEN groupStage(Tail(docs), Append(groups,
                     [customer_id  |-> d.customer_id,
                      last_message |-> d.text,
                      last_time    |-> d.id,
                      max_urgency  |-> d.urgency_score,
                      topics       |-> { d.topic }]))
             ELSE groupStage(Tail(docs),
                     [i \in 1..Len(groups) |->
                        IF i \in k THEN accumulate(groups[i], d)
                        ELSE groups[i]])

\* the field {"$sort": ...} orders by
sortKey(g, sort) == IF sort = "-urgency" THEN g.max_urgency ELSE g.last_time

\* g put into a list that is in descending order of the key, after the
\* elements whose key is not below its own
RECURSIVE insertDesc(_, _, _)
insertDesc(lst, g, sort) ==
    IF Len(lst) = 0 THEN << g >>
    ELSE IF sortKey(Head(lst), sort) >= sortKey(g, sort)
         THEN << Head(lst) >> \o insertDesc(Tail(lst), g, sort)
         ELSE << g >> \o lst

\* {"$sort": {key: -1}}
RECURSIVE sortStage(_, _)
sortStage(groups, sort) ==
    IF Len(groups) = 0 THEN << >>
    ELSE insertDesc(sortStage(SubSeq(groups, 1, Len(groups) - 1), sort),
                    groups[Len(groups)], sort)

\* {"$limit": limit}
limitStage(groups, limit) == SubSeq(groups, 1, min(limit, Len(groups)))

\* a slip: the stages are appended in the other order
limitThenSort(groups, sort, limit) ==
    sortStage(limitStage(groups, limit), sort)

\* the last two stages of the pipeline
sortThenLimit(groups, sort, limit) ==
    limitStage(sortStage(groups, sort), limit)

\* `if q:` on an Optional[str], held as << >> (None) or << the string >>
truthy(q) == q # << >> /\ q[1] # << >>

\* the documents of the collection as the scan hands them on: no stage sorts
\* them, so they come in the storage's natural order
scan(docs, order) == [i \in 1..Len(docs) |-> docs[order[i]]]

\* db["message"].aggregate(pipeline) and the loop building `out` (without
\* the customer document looked up for each item)
conversationsItems(docs, req) ==
    LET scanned == scan(docs, req.order)
        matched == IF truthy(req.q)
                   THEN matchStage(scanned, req.q[1]) ELSE scanned
        items   == sortThenLimit(groupStage(matched, << >>), req.sort, req.limit)
    IN  [i \in 1..Len(items) |->
           [customer_id  |-> items[i].customer_id,
            last_message |-> items[i].last_message,
            max_urgency  |-> items[i].max_urgency,
            topics       |-> items[i].topics \ { None }]]

Perms(n) == { f \in [1..n -> 1..n] : \A i, j \in 1..n : f[i] = f[j] => i = j }

Q_LOAN == <<"L","O","A","N">>
\* the q parameter: absent, the empty string, or a word
Queries == { << >>, << << >> >>, << Q_LOAN >> }
Sorts == { "-urgency", "-last" }

\* GET /api/conversations
Conversations(q, sort, limit, order) ==
    /\ convOut = NoResult
    /\ LET req == [q |-> q, sort |-> sort, limit |-> limit, order |-> order]
       IN  /\ convReq' = << req >>
           /\ convOut' = << conversationsItems(messages, req) >>
    /\ UNCHANGED << text, scored, messages, customers, active, wsPc, bcast,
                    imp >>

-----------------------------------------------------------------------------
(* SpecAgg: one conversations request on each collection of up to MaxDocs  *)
(* messages that create_message has stored with nobody listening.          *)

T_overdue == W_overdue
\* what the stored messages were created from: (customer_id, text,
\* direction)
DocInputs ==
    { << "c1", T_URGENT_loan, "inbound" >>, << "c1", T_overdue, "inbound" >>,
      << "c1", T_URGENT_loan, "outbound" >>,
      << "c2", T_URGENT_loan, "inbound" >>, << "c2", T_overdue, "inbound" >> }

stored(inputs) ==
    [i \in 1..Len(inputs) |->
       document(i, inputs[i][1], inputs[i][2], inputs[i][3],
                IF inputs[i][3] = "inbound" THEN "open" ELSE "sent",
                scoreIfInbound(inputs[i][3], inputs[i][2]))]

InitAgg ==
    /\ text = << >>
    /\ scored = NoResult
    /\ \E n \in 0..MaxDocs : \E inputs \in [1..n -> DocInputs] :
          /\ messages = stored(inputs)
          /\ bcast = [i \in 1..n |-> broadcastStart(<< >>)]
    /\ customers = {}
    /\ active = << >>
    /\ wsPc = [w \in WS |-> "new"]
    /\ imp = ImpIdle
    /\ convReq = NoResult
    /\ convOut = NoResult

NextAgg ==
    \E q \in Queries, sort \in Sorts, limit \in 1..MaxLimit,
       order \in Perms(Len(messages)) :
        Conversations(q, sort, limit, order)

SpecAgg == InitAgg /\ [][NextAgg]_vars

-----------------------------------------------------------------------------
(* Properties of score_urgency, checked under SpecClassify.                *)

HasScored == scored # NoResult

T_loan3 == Join(<< W_loan, W_loan, W_loan >>)
T_over100 == Join(<< W_repayment, W_overdue, W_identity >>)
T_account_repayment == Join(<< W_account, W_repayment >>)

\* C4: for every input text the urgency score_urgency returns is an integer
\* in the range 0..100 inclusive.
C4_UrgencyInRange ==
    HasScored => scored[1].urgency \in 0..100

\* C4 witness: a text whose contributions add up to 110 (payment bucket 70,
\* kyc bucket 40) has been scored, and the returned score is the clamp 100.
C4_Witness ==
    /\ HasScored
    /\ text = T_over100
    /\ scored[1].urgency = 100

AnyKeyword(kws, t) == \E i \in 1..Len(kws) : Contains(kws[i], t)

\* the label of the first bucket, in the order loan, account, kyc, payment,
\* with a keyword occurring in t; None when there is none
FirstMatchingBucket(t) ==
    IF AnyKeyword(KW_loan, t) THEN "loan"
    ELSE IF AnyKeyword(KW_account, t) THEN "account"
    ELSE IF AnyKeyword(KW_kyc, t) THEN "kyc"
    ELSE IF AnyKeyword(KW_payment, t) THEN "payment"
    ELSE None

\* C5: the topic score_urgency returns is the label of the first bucket, in
\* the fixed order loan, account, kyc, payment, that has a keyword occurring
\* in the (lower-cased) text, however many keywords of later buckets occur;
\* it is absent exactly when no bucket has a keyword occurring in the text.
C5_TopicIsFirstBucket ==
    HasScored =>
        /\ scored[1].topic = FirstMatchingBucket(lower(text))
        /\ (scored[1].topic = None) <=>
              (\A b \in 1..Len(URGENT_KEYWORDS) :
                   ~AnyKeyword(URGENT_KEYWORDS[b].kws, lower(text)))

\* C5 witness: "account repayment" has one keyword of the account bucket and
\* three of the later payment bucket, and was given the topic account.
C5_Witness ==
    /\ HasScored
    /\ text = T_account_repayment
    /\ hits(KW_account, lower(text)) = 1
    /\ hits(KW_payment, lower(text)) = 3
    /\ scored[1].topic = "account"

\* C6 as stated: score_urgency("loan loan loan") yields topic loan with
\* score 30 + 10*2 = 50, the three occurrences counting as three hits.
C6_Original ==
    (HasScored /\ text = T_loan3) =>
        scored[1] = [urgency |-> 50, topic |-> "loan"]

\* C6 amended: score_urgency("loan loan loan") yields topic loan with score
\* 30: the three occurrences of the one keyword are one hit of the bucket.
C6_LoanLoanLoan ==
    (HasScored /\ text = T_loan3) =>
        scored[1] = [urgency |-> 30, topic |-> "loan"]

\* C6 witness: "loan loan loan" has been scored.
C6_Witness ==
    /\ HasScored
    /\ text = T_loan3
    /\ Occurrences(S_loan, lower(text)) = 3

-----------------------------------------------------------------------------
(* Properties of ConnectionManager, checked under Spec.                    *)

Broadcasts == { bcast[m] : m \in DOMAIN bcast }

\* C1: a call of broadcast does not raise; when it has returned, every
\* observer registered when it was called has had exactly one send attempted,
\* in registration order, whichever sends failed before it, so the envelope
\* went exactly once to each whose send succeeded; every observer whose send
\* failed is out of the registry, and no broadcast called afterwards has it
\* among the observers it delivers to.
C1_BroadcastDelivers ==
    /\ [](\A b \in Broadcasts :
            /\ b.pc # "raised"
            /\ b.pc = "done" =>
                 /\ \A i \in 1..Len(b.att) : b.att[i].ws \in Range(b.snap)
                 /\ \A w \in Range(b.snap) :
                      Cardinality({ i \in 1..Len(b.att) : b.att[i].ws = w }) = 1
                 /\ SentWs(b) = SelectSeq(b.snap, LAMBDA w : w \notin FailedWs(b))
            /\ \A w \in FailedWs(b) : w \notin Range(active))
    /\ [][\A m \in DOMAIN bcast' \ DOMAIN bcast :
            /\ bcast'[m].snap = active
            /\ \A k \in DOMAIN bcast :
                 FailedWs(bcast[k]) \cap Range(bcast'[m].snap) = {}]_vars

\* C1 witness: a broadcast to three observers has returned; the send to the
\* first failed, the sends to the two after it succeeded, and the first is
\* no longer registered while the other two are.
C1_Witness ==
    \E b \in Broadcasts :
        /\ b.pc = "done"
        /\ Len(b.snap) = 3
        /\ ~b.att[1].ok /\ b.att[2].ok /\ b.att[3].ok
        /\ Len(SentWs(b)) = 2
        /\ Range(active) = { b.snap[2], b.snap[3] }

\* disconnect(w) is called in the step: by the handler of w leaving its
\* receive loop, or by a broadcast whose send to w raised
DisconnectCalled(w) ==
    \/ wsPc[w] = "receiving" /\ wsPc'[w] # "receiving"
    \/ \E m \in DOMAIN bcast :
          /\ Len(bcast'[m].att) = Len(bcast[m].att) + 1
          /\ bcast'[m].att[Len(bcast'[m].att)] = [ws |-> w, ok |-> FALSE]

\* C9: disconnect is idempotent and local: a call on a registered observer
\* removes exactly that observer and leaves the others registered in their
\* relative order; a call on an observer that is not registered (a second
\* call, or one after a failed broadcast removed it) does not raise and
\* leaves the registry unchanged.
C9_DisconnectIdempotentLocal ==
    [][\A w \in WS : DisconnectCalled(w) =>
          /\ active' = SelectSeq(active, LAMBDA x : x # w)
          /\ w \notin Range(active) => active' = active
          /\ wsPc'[w] # "crashed"
          /\ \A m \in DOMAIN bcast' : bcast'[m].pc # "raised"]_vars

\* C9 witness: disconnect has been called twice on one observer (once by a
\* broadcast whose send to it failed, once by its handler) while two others
\* stay registered.
C9_Witness ==
    \E w \in WS :
        /\ wsPc[w] = "closed"
        /\ \E b \in Broadcasts : w \in FailedWs(b)
        /\ Len(active) = 2

InProgress == \E m \in DOMAIN bcast : bcast[m].pc = "sending"

\* C10 as stated: while a broadcast is in progress no connect, no disconnect
\* and no other broadcast is executed; the registry changes only by that
\* broadcast removing observers whose send failed.
C10_Original ==
    [][InProgress =>
          /\ Range(active') \subseteq Range(active)
          /\ \A w \in WS : wsPc'[w] = wsPc[w]
          /\ DOMAIN bcast' = DOMAIN bcast
          /\ active' # active =>
                \E m \in DOMAIN bcast : bcast'[m].att # bcast[m].att]_vars

\* C10 amended: hub operations interleave at the suspension points of
\* broadcast (a connect, a disconnect or another broadcast may run while a
\* broadcast waits on a send), but a broadcast in progress keeps to the copy
\* of the registry it took when it started: at every moment the observers it
\* has attempted are the first ones of that copy, in order, whatever has
\* happened to the registry since.
C10_BroadcastKeepsSnapshot ==
    \A b \in Broadcasts :
        /\ Len(b.att) <= Len(b.snap)
        /\ \A i \in 1..Len(b.att) : b.att[i].ws = b.snap[i]

\* C10 witness: a broadcast is suspended after its first send while an
\* observer that connected after it started is registered and one it copied
\* has left, and another broadcast is in progress as well.
C10_Witness ==
    \E m \in DOMAIN bcast :
        /\ bcast[m].pc = "sending"
        /\ Len(bcast[m].att) >= 1
        /\ ~(Range(active) \subseteq Range(bcast[m].snap))
        /\ \E w \in Range(bcast[m].snap) : wsPc[w] = "closed"
        /\ \E k \in DOMAIN bcast : k # m /\ bcast[k].pc = "sending"

-----------------------------------------------------------------------------
(* Properties of message creation, checked under SpecMsg.                  *)

\* C2 as stated: no message is ever stored without being broadcast: every
\* stored message, whichever entry point stored it, has a broadcast call
\* made for it.
C2_EveryStoredMessageBroadcast ==
    \A i \in 1..Len(messages) : i \in DOMAIN bcast

\* C3: every stored message with a direction other than inbound has
\* urgency_score 0 and no topic, whatever its text contains.
C3_OnlyInboundScored ==
    \A i \in 1..Len(messages) :
        messages[i].direction # "inbound" =>
            /\ messages[i].urgency_score = 0
            /\ messages[i].topic = None

\* C3 witness: an outbound message whose text the classifier would score
\* above 0 with topic loan is stored.
C3_Witness ==
    \E i \in 1..Len(messages) :
        /\ messages[i].direction = "outbound"
        /\ messages[i].text = T_URGENT_loan
        /\ score_urgency(messages[i].text) = [urgency |-> 50, topic |-> "loan"]
        /\ messages[i].urgency_score = 0

-----------------------------------------------------------------------------
(* Properties of conversations, checked under SpecAgg.                     *)

\* the stored messages the filter of the request lets through
Surviving(req) ==
    { i \in 1..Len(messages) :
        \/ req.q = << >>
        \/ req.q[1] = << >>
        \/ Contains(lower(req.q[1]), lower(messages[i].text)) }
SurvivingOf(req, c) == { i \in Surviving(req) : messages[i].customer_id = c }
Newest(S) == CHOOSE i \in S : \A j \in S : j <= i
MaxUrgency(S) ==
    CHOOSE u \in { messages[i].urgency_score : i \in S } :
        \A j \in S : messages[j].urgency_score <= u
Answered == convOut # NoResult
Items == convOut[1]
Req == convReq[1]

\* C7 as stated: each summary has as last message the text of the message
\* with the greatest creation order among that customer's messages that
\* survive the filter, in whatever order the storage hands the messages on.
C7_LastMessageIsNewest ==
    Answered =>
        \A k \in 1..Len(Items) :
            Items[k].last_message =
                messages[Newest(SurvivingOf(Req, Items[k].customer_id))].text

\* C8: with the max-urgency sort key there is one summary per customer, its
\* max_urgency the maximum urgency_score over the customer's surviving
\* messages; the summaries are in non-increasing order of max_urgency, and
\* the limit cuts after the sort: the summaries returned are the limit
\* highest ones.
C8_MaxUrgencySortedThenCut ==
    (Answered /\ Req.sort = "-urgency") =>
        LET shown  == { Items[k].customer_id : k \in 1..Len(Items) }
            having == { c \in CustomerIds : SurvivingOf(Req, c) # {} }
        IN  /\ \A k, l \in 1..Len(Items) :
                  Items[k].customer_id = Items[l].customer_id => k = l
            /\ shown \subseteq having
            /\ \A k \in 1..Len(Items) :
                  Items[k].max_urgency =
                      MaxUrgency(SurvivingOf(Req, Items[k].customer_id))
            /\ \A k, l \in 1..Len(Items) :
                  k < l => Items[k].max_urgency >= Items[l].max_urgency
            /\ Len(Items) = min(Req.limit, Cardinality(having))
            /\ \A c \in having \ shown : \A k \in 1..Len(Items) :
                  MaxUrgency(SurvivingOf(Req, c)) <= Items[k].max_urgency

\* C8 witness: with limit 1 and the max-urgency key, the one summary returned
\* is that of the customer whose messages arrived last and whose maximum, 50,
\* is taken over two messages (40 and 50) and beats the other customer's 40.
C8_Witness ==
    /\ Answered
    /\ Req.sort = "-urgency" /\ Req.limit = 1
    /\ Len(messages) = 3
    /\ Req.order = << 1, 2, 3 >>
    /\ messages[1].customer_id = "c1" /\ messages[1].urgency_score = 40
    /\ messages[2].customer_id = "c2" /\ messages[2].urgency_score = 40
    /\ messages[3].customer_id = "c2" /\ messages[3].urgency_score = 50
    /\ Len(Items) = 1
    /\ Items[1].customer_id = "c2" /\ Items[1].max_urgency = 50

=============================================================================
